---------------------------- MODULE Spec2Model ----------------------------
(***************************************************************************)
(* A model of the voice-session controller of the manasat assistant        *)
(* (App component, src/types.ts lines 683-1483) and of the mock API it     *)
(* calls (src/unnamed/part_002 lines 205-575).                             *)
(*                                                                         *)
(* Every ref (useRef) and every piece of React state the handlers touch is *)
(* a variable of the same name.  A handler is a pure operator from the     *)
(* state record (Cur) to the state record after it; an action is one task  *)
(* of the JavaScript event loop: the handler, every function it calls, and *)
(* the promise continuations (microtasks) it makes runnable.               *)
(*                                                                         *)
(* Handlers created inside connectSession (onopen, onmessage, onerror,     *)
(* onclose, the reconnect timer) close over the render in which            *)
(* connectSession was called: they see that render's activeProperty,       *)
(* propertyHistory and isRecording, and that render's handleToolCall and   *)
(* stopSession.  The snapshot is carried as "snap".                        *)
(*                                                                         *)
(* Texts are modelled by what the code does with them: a transcript is the *)
(* sequence of the fragments appended to it, a query is the set of search  *)
(* keywords it includes, a tool result is a record of the template used    *)
(* and the values interpolated into it.                                    *)
(***************************************************************************)
EXTENDS Integers, Sequences, FiniteSets, Bags, TLC

----------------------------------------------------------------------------
(* Bounds of the model                                                     *)

MaxTasks == 2
MaxConns == 2
MaxTimers == 3
MaxStreams == 2
MaxAuto == 4
MaxCalls == 2
MaxFrags == 2
MaxTurns == 2
MaxLog == 2
MaxChunks == 2
MaxTime == 3
MaxRetryAttempts == 5

----------------------------------------------------------------------------
(* Program constants                                                       *)

maxReconnectAttempts == 3
MicMaxAttempts == 2
ConnMaxAttempts == 3
InquiriesKeep == 200
TranscriptKeep == 5
Date_now == 1

----------------------------------------------------------------------------
(* mockApi: the property catalogue and the search                          *)

\* The location keywords searchProperties looks for in a query, and the
\* property types.  A property's "loc" is the set of keywords whose
\* location name its location string includes.
LocationKeys ==
  {"riyadh", "jeddah", "dammam", "khobar", "hittin", "malqa", "narjis",
   "yasmin", "olaya", "rawda", "shati", "mohammadiya"}

\* 'فيلا', 'شقة', 'شقق', 'أرض', 'ارض'
TypeKeys == {"villa", "shaqqa", "shuqaq", "ard_hamza", "ard"}

MOCK_PROPERTIES ==
  << [id |-> 1,  type |-> "villa",     loc |-> {"riyadh", "hittin"},      hood |-> "hittin"],
     [id |-> 2,  type |-> "apartment", loc |-> {"riyadh", "malqa"},       hood |-> "malqa"],
     [id |-> 3,  type |-> "land",      loc |-> {"riyadh", "narjis"},      hood |-> "narjis"],
     [id |-> 4,  type |-> "villa",     loc |-> {"jeddah", "shati"},       hood |-> "shati"],
     [id |-> 5,  type |-> "apartment", loc |-> {"riyadh", "olaya"},       hood |-> "olaya"],
     [id |-> 6,  type |-> "villa",     loc |-> {"riyadh", "yasmin"},      hood |-> "yasmin"],
     [id |-> 7,  type |-> "land",      loc |-> {"dammam"},                hood |-> "faisaliya"],
     [id |-> 8,  type |-> "apartment", loc |-> {"khobar"},                hood |-> "aqrabiya"],
     [id |-> 9,  type |-> "villa",     loc |-> {"jeddah", "mohammadiya"}, hood |-> "mohammadiya"],
     [id |-> 10, type |-> "apartment", loc |-> {"jeddah", "shati"},       hood |-> "shati"],
     [id |-> 11, type |-> "land",      loc |-> {"riyadh"},                hood |-> "aziziya"],
     [id |-> 12, type |-> "villa",     loc |-> {"riyadh", "rawda"},       hood |-> "rawda"] >>

\* The subsequence of seq whose elements satisfy Test, in order.
RECURSIVE FilterSeq(_, _)
FilterSeq(seq, keep) ==
  IF seq = << >> THEN << >>
  ELSE IF Head(seq) \in keep THEN << Head(seq) >> \o FilterSeq(Tail(seq), keep)
       ELSE FilterSeq(Tail(seq), keep)

\* The types a query asks for.
QueryTypes(q) ==
  (IF "villa" \in q THEN {"villa"} ELSE {})
  \cup (IF "shaqqa" \in q \/ "shuqaq" \in q THEN {"apartment"} ELSE {})
  \cup (IF "ard_hamza" \in q \/ "ard" \in q THEN {"land"} ELSE {})

\* The filter of searchProperties: a property passes when the query names no
\* location or one of the named locations is the property's, and the query
\* names no type or one of the named types is the property's.
SearchMatches(q, p) ==
  LET hasLocationQuery == q \cap LocationKeys # {}
      hasTypeQuery == q \cap TypeKeys # {}
  IN  /\ hasLocationQuery => (q \cap p.loc # {})
      /\ hasTypeQuery => (p.type \in QueryTypes(q))

MatchingIds(q) ==
  {MOCK_PROPERTIES[i].id : i \in {j \in DOMAIN MOCK_PROPERTIES : SearchMatches(q, MOCK_PROPERTIES[j])}}

IdSeq == [i \in DOMAIN MOCK_PROPERTIES |-> MOCK_PROPERTIES[i].id]

\* searchProperties(query) with lastShownPropertyId = last: the ids of the
\* results in the order returned (the last shown one moved to the end when
\* there is more than one result).
SearchResults(q, last) ==
  LET results == FilterSeq(IdSeq, MatchingIds(q))
  IN  IF Len(results) > 1 /\ last # 0 /\ last \in MatchingIds(q)
      THEN FilterSeq(results, MatchingIds(q) \ {last}) \o << last >>
      ELSE results

\* lastShownPropertyId after searchProperties(query).
SearchLastShown(q, last) ==
  LET results == SearchResults(q, last)
  IN  IF Len(results) > 0 THEN results[1] ELSE last

\* The neighbourhoods, in catalogue order and without repetition, of the
\* properties of the types the text names.
RECURSIVE Neighbourhoods(_, _)
Neighbourhoods(i, types) ==
  IF i = 0 THEN << >>
  ELSE LET before == Neighbourhoods(i - 1, types)
           p == MOCK_PROPERTIES[i]
       IN  IF p.type \in types /\ ~(\E k \in DOMAIN before : before[k] = p.hood)
           THEN Append(before, p.hood)
           ELSE before

getAlternativeLocations(q) == Neighbourhoods(Len(MOCK_PROPERTIES), QueryTypes(q))

----------------------------------------------------------------------------
(* State                                                                   *)

VARIABLES
  \* React state of App
  showDashboard, isRecording, activeProperty, propertyHistory, showGallery,
  showLeadForm, statusMessage, transcript,
  \* refs of App
  audioContextRef, outputAudioContextRef, nextStartTimeRef, sourcesRef,
  sessionRef, sessionPromiseRef, streamRef, scriptProcessorRef,
  currentInputTranscription, currentOutputTranscription, showGalleryRef,
  isProcessingRef, showLeadFormRef, reconnectAttemptsRef, toolsUsedRef,
  turnStartTimeRef, abortControllerRef,
  \* module state of mockApi and the stored conversation log
  lastShownPropertyId, currentSessionId, inquiries,
  \* the world outside the component
  tasks,            \* connectSession invocations suspended at an await (a bag)
  conns,            \* backend connections that can still call back, each
                    \* with the fragments it has sent in its current turn
  reconnectTimers,  \* pending setTimeout(.., 1000) of onerror, oldest first
  searches,         \* handleToolCall invocations awaiting searchProperties
  guardTimers,      \* pending setTimeout(.., 100) of handleToolCall
  liveStreams,      \* microphone streams whose tracks are not stopped
  openInputContexts, openOutputContexts,  \* AudioContexts not closed
  sent,             \* tool responses handed to sendToolResponse, in order
  accepted, skipped,\* ids logged at lines 949 and 944
  callSeq,          \* ids the backend has used for its function calls
  autoReconnects,   \* connectSession calls made by reconnect timers since
                    \* the last call made by the user
  currentTime,      \* currentTime of the newest output AudioContext
  decodes,          \* onmessage invocations awaiting decodeAudioData
  chunkSeq,         \* numbers the backend has given to its audio chunks
  interruptedUpTo,  \* the number of the last chunk sent before the latest
                    \* interruption marker that has been handled
  retry             \* a call of withRetry with any maxAttempts

vars ==
  << showDashboard, isRecording, activeProperty, propertyHistory, showGallery,
     showLeadForm, statusMessage, transcript, audioContextRef,
     outputAudioContextRef, nextStartTimeRef, sourcesRef, sessionRef,
     sessionPromiseRef, streamRef, scriptProcessorRef,
     currentInputTranscription, currentOutputTranscription, showGalleryRef,
     isProcessingRef, showLeadFormRef, reconnectAttemptsRef, toolsUsedRef,
     turnStartTimeRef, abortControllerRef, lastShownPropertyId,
     currentSessionId, inquiries, tasks, conns, reconnectTimers, searches,
     guardTimers, liveStreams, openInputContexts, openOutputContexts, sent,
     accepted, skipped, callSeq, autoReconnects, currentTime, decodes,
     chunkSeq, interruptedUpTo, retry >>

\* The state as one record, so that handlers compose as functions.
Cur ==
  [ showDashboard |-> showDashboard, isRecording |-> isRecording,
    activeProperty |-> activeProperty, propertyHistory |-> propertyHistory,
    showGallery |-> showGallery, showLeadForm |-> showLeadForm,
    statusMessage |-> statusMessage, transcript |-> transcript,
    audioContextRef |-> audioContextRef,
    outputAudioContextRef |-> outputAudioContextRef,
    nextStartTimeRef |-> nextStartTimeRef, sourcesRef |-> sourcesRef,
    sessionRef |-> sessionRef, sessionPromiseRef |-> sessionPromiseRef,
    streamRef |-> streamRef, scriptProcessorRef |-> scriptProcessorRef,
    currentInputTranscription |-> currentInputTranscription,
    currentOutputTranscription |-> currentOutputTranscription,
    showGalleryRef |-> showGalleryRef, isProcessingRef |-> isProcessingRef,
    showLeadFormRef |-> showLeadFormRef,
    reconnectAttemptsRef |-> reconnectAttemptsRef,
    toolsUsedRef |-> toolsUsedRef, turnStartTimeRef |-> turnStartTimeRef,
    abortControllerRef |-> abortControllerRef,
    lastShownPropertyId |-> lastShownPropertyId,
    currentSessionId |-> currentSessionId, inquiries |-> inquiries,
    tasks |-> tasks, conns |-> conns, reconnectTimers |-> reconnectTimers,
    searches |-> searches, guardTimers |-> guardTimers,
    liveStreams |-> liveStreams, openInputContexts |-> openInputContexts,
    openOutputContexts |-> openOutputContexts, sent |-> sent,
    accepted |-> accepted, skipped |-> skipped, callSeq |-> callSeq,
    autoReconnects |-> autoReconnects, currentTime |-> currentTime,
    decodes |-> decodes, chunkSeq |-> chunkSeq,
    interruptedUpTo |-> interruptedUpTo, retry |-> retry ]

\* The next state is the record s.
Commit(s) ==
  /\ showDashboard' = s.showDashboard
  /\ isRecording' = s.isRecording
  /\ activeProperty' = s.activeProperty
  /\ propertyHistory' = s.propertyHistory
  /\ showGallery' = s.showGallery
  /\ showLeadForm' = s.showLeadForm
  /\ statusMessage' = s.statusMessage
  /\ transcript' = s.transcript
  /\ audioContextRef' = s.audioContextRef
  /\ outputAudioContextRef' = s.outputAudioContextRef
  /\ nextStartTimeRef' = s.nextStartTimeRef
  /\ sourcesRef' = s.sourcesRef
  /\ sessionRef' = s.sessionRef
  /\ sessionPromiseRef' = s.sessionPromiseRef
  /\ streamRef' = s.streamRef
  /\ scriptProcessorRef' = s.scriptProcessorRef
  /\ currentInputTranscription' = s.currentInputTranscription
  /\ currentOutputTranscription' = s.currentOutputTranscription
  /\ showGalleryRef' = s.showGalleryRef
  /\ isProcessingRef' = s.isProcessingRef
  /\ showLeadFormRef' = s.showLeadFormRef
  /\ reconnectAttemptsRef' = s.reconnectAttemptsRef
  /\ toolsUsedRef' = s.toolsUsedRef
  /\ turnStartTimeRef' = s.turnStartTimeRef
  /\ abortControllerRef' = s.abortControllerRef
  /\ lastShownPropertyId' = s.lastShownPropertyId
  /\ currentSessionId' = s.currentSessionId
  /\ inquiries' = s.inquiries
  /\ tasks' = s.tasks
  /\ conns' = s.conns
  /\ reconnectTimers' = s.reconnectTimers
  /\ searches' = s.searches
  /\ guardTimers' = s.guardTimers
  /\ liveStreams' = s.liveStreams
  /\ openInputContexts' = s.openInputContexts
  /\ openOutputContexts' = s.openOutputContexts
  /\ sent' = s.sent
  /\ accepted' = s.accepted
  /\ skipped' = s.skipped
  /\ callSeq' = s.callSeq
  /\ autoReconnects' = s.autoReconnects
  /\ currentTime' = s.currentTime
  /\ decodes' = s.decodes
  /\ chunkSeq' = s.chunkSeq
  /\ interruptedUpTo' = s.interruptedUpTo
  /\ retry' = s.retry

\* An AbortController: null, or a controller with its signal's flag.
NullCtl == [id |-> 0, aborted |-> FALSE]

\* No call of withRetry.  Of a call: the options' maxAttempts and whether
\* they hold an onRetry, the loop's attempt, how often fn was invoked,
\* lastError, where the call is (awaiting fn, awaiting the backoff, returned,
\* thrown), what it threw, the controller its backoff listens to (0: none),
\* the arguments onRetry was called with and the delays of the timers set,
\* both in order.
NoRetry ==
  [ maxAttempts |-> 0, onRetry |-> FALSE, attempt |-> 0, invocations |-> 0,
    lastError |-> "Unknown error", phase |-> "idle", thrown |-> "none", ctl |-> 0,
    observed |-> << >>, waits |-> << >> ]

\* A connection that has sent no transcript fragment in its current turn.
NoFragments == [input |-> << >>, output |-> << >>]


\* The state after construction: the initial values of useState and useRef
\* (lines 684-712) and of the module variables of mockApi.
Init ==
  /\ showDashboard = FALSE
  /\ isRecording = FALSE
  /\ activeProperty = 0
  /\ propertyHistory = << >>
  /\ showGallery = FALSE
  /\ showLeadForm = FALSE
  /\ statusMessage = "idle"
  /\ transcript = << >>
  /\ audioContextRef = 0
  /\ outputAudioContextRef = 0
  /\ nextStartTimeRef = 0
  /\ sourcesRef = {}
  /\ sessionRef = 0
  /\ sessionPromiseRef = 0
  /\ streamRef = 0
  /\ scriptProcessorRef = 0
  /\ currentInputTranscription = << >>
  /\ currentOutputTranscription = << >>
  /\ showGalleryRef = FALSE
  /\ isProcessingRef = FALSE
  /\ showLeadFormRef = FALSE
  /\ reconnectAttemptsRef = 0
  /\ toolsUsedRef = << >>
  /\ turnStartTimeRef = 0
  /\ abortControllerRef = NullCtl
  /\ lastShownPropertyId = 0
  /\ currentSessionId = 0
  /\ inquiries = << >>
  /\ tasks = EmptyBag
  /\ conns = {}
  /\ reconnectTimers = << >>
  /\ searches = {}
  /\ guardTimers = 0
  /\ liveStreams = 0
  /\ openInputContexts = 0
  /\ openOutputContexts = 0
  /\ sent = << >>
  /\ accepted = {}
  /\ skipped = {}
  /\ callSeq = 0
  /\ autoReconnects = 0
  /\ currentTime = 0
  /\ decodes = {}
  /\ chunkSeq = 0
  /\ interruptedUpTo = 0
  /\ retry = NoRetry

\* What the handlers of a render close over.
Snap(s) ==
  [ isRecording |-> s.isRecording, activeProperty |-> s.activeProperty,
    propertyHistory |-> s.propertyHistory ]

----------------------------------------------------------------------------
(* Helpers                                                                 *)

Min(S) == CHOOSE x \in S : \A y \in S : x <= y

\* The last n elements of seq: seq.slice(-n).
LastN(seq, n) ==
  IF Len(seq) <= n THEN seq ELSE SubSeq(seq, Len(seq) - n + 1, Len(seq))

\* a || b for texts: the empty text is falsy.
OrElse(text, placeholder) == IF text # << >> THEN text ELSE placeholder

\* The bag b with one copy of x more, and with one copy less.
Put(b, x) == b (+) SetToBag({x})
Take(b, x) == b (-) SetToBag({x})

NewConnId(s) ==
  Min((1..(Cardinality(s.conns) + Len(s.sent) + 2))
      \ ({c.id : c \in s.conns} \cup {s.sent[k].conn : k \in DOMAIN s.sent}
          \cup {s.sessionRef}))
NewCtlId(s) == Min((1..(BagCardinality(s.tasks) + 1)) \ {t.ctl : t \in BagToSet(s.tasks)})

----------------------------------------------------------------------------
(* mockApi.saveInquiry and resetSessionId                                  *)

\* saveInquiry(userMessage, botResponse, options): the record stored.  The
\* duration is present when options.startTime is truthy.
InquiryRecord(userMessage, botResponse, propertyId, toolsUsed, status, startTime) ==
  [ userMessage |-> userMessage, botResponse |-> botResponse,
    propertyId |-> propertyId, toolsUsed |-> toolsUsed, status |-> status,
    hasDuration |-> (startTime # 0) ]

saveInquiry(s, userMessage, botResponse, propertyId, toolsUsed, status, startTime) ==
  [s EXCEPT
     !.currentSessionId = 1,
     !.inquiries =
        LastN(Append(@, InquiryRecord(userMessage, botResponse, propertyId,
                                      toolsUsed, status, startTime)),
              InquiriesKeep)]

resetSessionId(s) == [s EXCEPT !.currentSessionId = 0]

----------------------------------------------------------------------------
(* stopAudioPlayback and stopSession                                       *)

\* A teardown that stops the sources and keeps the output context.
stopAudioPlaybackKeepsContext(s) ==
  [s EXCEPT !.sourcesRef = {}, !.nextStartTimeRef = 0]

\* Lines 911-932.
stopAudioPlayback(s) ==
  [s EXCEPT
     !.sourcesRef = {},
     !.nextStartTimeRef = 0,
     !.openOutputContexts = IF s.outputAudioContextRef # 0 THEN @ - 1 ELSE @,
     !.outputAudioContextRef = 0]

\* Lines 1256-1260: abort() runs the listeners of the waits registered on
\* this controller, which reject those waits with 'Connection cancelled';
\* the controller is then dropped.
AbortPending(s) ==
  IF s.abortControllerRef # NullCtl
  THEN LET aborted == [s.abortControllerRef EXCEPT !.aborted = TRUE]
       IN  [s EXCEPT
              !.tasks = BagOfAll(LAMBDA t :
                                   IF t.phase \in {"micWait", "connWait"} /\ t.ctl = aborted.id
                                   THEN [t EXCEPT !.phase = "cancelled"] ELSE t, @),
              !.abortControllerRef = NullCtl]
  ELSE s

\* A flush that leaves the turn state as it was.
FlushSessionEndKeeps(s, snap) ==
  IF s.currentInputTranscription # << >> \/ s.currentOutputTranscription # << >>
  THEN saveInquiry(s, OrElse(s.currentInputTranscription, << "[session end]" >>),
                   OrElse(s.currentOutputTranscription, << "[session ended]" >>),
                   snap.activeProperty, s.toolsUsedRef, "session_end",
                   s.turnStartTimeRef)
  ELSE s

\* Lines 1262-1278.
FlushSessionEnd(s, snap) ==
  IF s.currentInputTranscription # << >> \/ s.currentOutputTranscription # << >>
  THEN [saveInquiry(s, OrElse(s.currentInputTranscription, << "[session end]" >>),
                    OrElse(s.currentOutputTranscription, << "[session ended]" >>),
                    snap.activeProperty, s.toolsUsedRef, "session_end",
                    s.turnStartTimeRef)
          EXCEPT !.currentInputTranscription = << >>,
                 !.currentOutputTranscription = << >>,
                 !.toolsUsedRef = << >>,
                 !.turnStartTimeRef = 0]
  ELSE s

\* A release that leaves the microphone as it is.
ReleaseSessionKeepsStream(s) ==
  [s EXCEPT
     !.openInputContexts = IF s.audioContextRef # 0 THEN @ - 1 ELSE @,
     !.audioContextRef = 0,
     !.conns = {IF c.id = s.sessionRef THEN [c EXCEPT !.state = "closing"] ELSE c : c \in @},
     !.sessionRef = 0,
     !.sessionPromiseRef = 0,
     !.scriptProcessorRef = 0]

\* Lines 1303-1323: the input context, the connection, the processor and the
\* microphone.  close() on a connection starts its closing; its onclose
\* callback comes later.
ReleaseSession(s) ==
  [s EXCEPT
     !.openInputContexts = IF s.audioContextRef # 0 THEN @ - 1 ELSE @,
     !.audioContextRef = 0,
     !.conns = {IF c.id = s.sessionRef THEN [c EXCEPT !.state = "closing"] ELSE c : c \in @},
     !.sessionRef = 0,
     !.sessionPromiseRef = 0,
     !.scriptProcessorRef = 0,
     !.liveStreams = IF s.streamRef # 0 THEN @ - 1 ELSE @,
     !.streamRef = 0]

\* stopSession of the render "snap" (lines 1255-1326).
stopSession(s, snap) ==
  LET s1 == AbortPending(s)
      s2 == FlushSessionEnd(s1, snap)
      s3 == resetSessionId(s2)
      s4 == stopAudioPlayback(s3)
      s5 == ReleaseSession(s4)
  IN  [s5 EXCEPT !.isRecording = FALSE, !.statusMessage = "idle"]

----------------------------------------------------------------------------
(* withRetry and connectSession                                            *)

\* An error is modelled by what the code reads of it: the name, or the word
\* of the message that classifies it.

\* Lines 739-741.
IsFatal(err) == err \in {"api key", "quota", "unauthorized", "forbidden", "invalid"}

\* getErrorMessage (lines 767-779).
getErrorMessage(err) ==
  IF err \in {"api key", "unauthorized"} THEN "auth"
  ELSE IF err = "quota" THEN "quota"
  ELSE IF err \in {"network", "fetch"} THEN "network"
  ELSE "failed"

\* Line 728.
SignalAborted(s) == s.abortControllerRef # NullCtl /\ s.abortControllerRef.aborted

\* The catch block of connectSession (lines 1228-1252) for the task t.
ConnectCatch(s, t, err) ==
  [s EXCEPT
     !.tasks = Take(@, t),
     !.liveStreams = IF s.streamRef # 0 THEN @ - 1 ELSE @,
     !.streamRef = 0,
     !.openInputContexts = IF s.audioContextRef # 0 THEN @ - 1 ELSE @,
     !.audioContextRef = 0,
     !.openOutputContexts = IF s.outputAudioContextRef # 0 THEN @ - 1 ELSE @,
     !.outputAudioContextRef = 0,
     !.statusMessage = IF err = "Connection cancelled" THEN "idle"
                       ELSE getErrorMessage(err)]

\* The microtasks a handler leaves behind: every wait rejected by an abort
\* resumes in the catch block of its connectSession.
RECURSIVE Drain(_)
Drain(s) ==
  IF \E t \in BagToSet(s.tasks) : t.phase = "cancelled"
  THEN LET t == CHOOSE x \in BagToSet(s.tasks) : x.phase = "cancelled"
       IN  Drain(ConnectCatch(s, t, "Connection cancelled"))
  ELSE s

\* The message the .catch of the microphone request rethrows (1065-1070).
MicError(err) == IF err = "NotAllowedError" THEN "mic permission" ELSE err

\* A catch block that lets one attempt more follow.
RetryFailureOneMore(s, t, err, maxAttempts, onRetryStatus, waitPhase, thrown) ==
  IF IsFatal(err) \/ t.attempt > maxAttempts
  THEN ConnectCatch(s, t, thrown)
  ELSE [s EXCEPT
          !.statusMessage = onRetryStatus,
          !.tasks = Put(Take(@, t),
                        [t EXCEPT !.phase = waitPhase, !.ctl = s.abortControllerRef.id])]

\* A catch block that retries the fatal errors as well.
RetryFailureNoFatal(s, t, err, maxAttempts, onRetryStatus, waitPhase, thrown) ==
  IF t.attempt >= maxAttempts
  THEN ConnectCatch(s, t, thrown)
  ELSE [s EXCEPT
          !.statusMessage = onRetryStatus,
          !.tasks = Put(Take(@, t),
                        [t EXCEPT !.phase = waitPhase, !.ctl = s.abortControllerRef.id])]

\* The awaited operation of task t, in its attempt t.attempt of maxAttempts,
\* failed with err (lines 734-763): a fatal error and the last attempt's
\* error are thrown into connectSession's catch; otherwise onRetry is called
\* and the wait begins, listening to the controller that is current now.
RetryFailure(s, t, err, maxAttempts, onRetryStatus, waitPhase, thrown) ==
  IF IsFatal(err) \/ t.attempt >= maxAttempts
  THEN ConnectCatch(s, t, thrown)
  ELSE [s EXCEPT
          !.statusMessage = onRetryStatus,
          !.tasks = Put(Take(@, t),
                        [t EXCEPT !.phase = waitPhase, !.ctl = s.abortControllerRef.id])]

\* The wait of task t is over (line 753): the next attempt begins, unless the
\* signal reads aborted (line 728).
RetryNext(s, t, callPhase) ==
  IF SignalAborted(s)
  THEN ConnectCatch(s, t, "Connection cancelled")
  ELSE [s EXCEPT
          !.tasks = Put(Take(@, t),
                        [t EXCEPT !.phase = callPhase, !.attempt = @ + 1, !.ctl = 0])]

\* A connectSession invocation at its first await: the microphone request
\* of withRetry's first attempt.  ctl is the controller its wait listens to.
NewTask(snap) == [phase |-> "mic", attempt |-> 1, ctl |-> 0, snap |-> snap]

\* connectSession up to its first await (lines 1047-1060), called from the
\* render snap.
connectSession(s, snap) ==
  IF s.sessionRef # 0 THEN s
  ELSE LET s1 == [s EXCEPT
                    !.reconnectAttemptsRef = 0,
                    !.abortControllerRef = [id |-> NewCtlId(s), aborted |-> FALSE],
                    !.statusMessage = "connecting"]
       IN  IF SignalAborted(s1)
           THEN ConnectCatch(s1, NewTask(snap), "Connection cancelled")
           ELSE [s1 EXCEPT !.tasks = Put(@, NewTask(snap))]

\* The microphone request of task t resolved (lines 1072-1080): the stream
\* and two new AudioContexts are stored, whatever the refs held, and the
\* backend connection is requested.  The clock of a new context reads 0.
MicResolved(s, t) ==
  LET s1 == [s EXCEPT
               !.liveStreams = @ + 1,
               !.streamRef = 1,
               !.openInputContexts = @ + 1,
               !.audioContextRef = 1,
               !.openOutputContexts = @ + 1,
               !.outputAudioContextRef = 1,
               !.currentTime = 0]
  IN  IF SignalAborted(s1)
      THEN ConnectCatch(s1, t, "Connection cancelled")
      ELSE [s1 EXCEPT
              !.tasks = Put(Take(@, t), [t EXCEPT !.phase = "conn", !.attempt = 1, !.ctl = 0])]

\* onRetry of the connection (line 1222).
ConnRetryStatus(attempt) == IF attempt = 1 THEN "retry 1/3" ELSE "retry 2/3"

\* What becomes of ai.live.connect when its onopen callback throws.
OpenThrowOutcomes == {"resolve", "hang"}

\* onopen (lines 1093-1105).  It dereferences audioContextRef and streamRef
\* after the two state updates; thrown is whether that throws.
OnOpenThrows(s) == s.audioContextRef = 0 \/ s.streamRef = 0

onopen(s) ==
  LET s1 == [s EXCEPT !.isRecording = TRUE, !.statusMessage = "listening"]
  IN  IF OnOpenThrows(s) THEN s1 ELSE [s1 EXCEPT !.scriptProcessorRef = 1]

\* The connection request of task t succeeded: onopen runs, and then lines
\* 1226-1227 store the session.
ConnResolved(s, t, thrown) ==
  LET id == NewConnId(s)
      s1 == onopen(s)
      s2 == [s1 EXCEPT
               !.tasks = Take(@, t),
               !.conns = @ \cup {[id |-> id, state |-> "open", snap |-> t.snap,
                                  frags |-> NoFragments]}]
  IN  IF OnOpenThrows(s) /\ thrown = "hang"
      THEN s2
      ELSE [s2 EXCEPT !.sessionPromiseRef = id, !.sessionRef = id]

\* onerror of a connection made by the render snap (lines 1197-1211).
onerror(s, snap) ==
  IF s.reconnectAttemptsRef < maxReconnectAttempts
  THEN [s EXCEPT
          !.reconnectAttemptsRef = @ + 1,
          !.statusMessage = "reconnecting",
          !.reconnectTimers = Append(@, snap)]
  ELSE stopSession([s EXCEPT !.statusMessage = "failed"], snap)

\* onclose of a connection made by the render snap (lines 1212-1217).
onclose(s, snap) ==
  IF s.reconnectAttemptsRef >= maxReconnectAttempts \/ ~snap.isRecording
  THEN stopSession(s, snap)
  ELSE s

\* The callback of the reconnect timer (lines 1203-1206).
reconnectTimer(s, snap) == connectSession(stopSession(s, snap), snap)

----------------------------------------------------------------------------
(* Actions of the session lifecycle                                        *)

\* The user presses the microphone button (toggleSession, line 1328).
ToggleSession ==
  /\ ~showDashboard
  /\ isRecording \/ BagCardinality(tasks) < MaxTasks
  /\ LET s == IF isRecording THEN stopSession(Cur, Snap(Cur))
              ELSE connectSession(Cur, Snap(Cur))
     IN  Commit([Drain(s) EXCEPT
                   !.autoReconnects = IF isRecording THEN @ ELSE 0])

\* getUserMedia resolves for a task.
MicOk ==
  \E t \in BagToSet(tasks) :
    /\ t.phase = "mic"
    /\ liveStreams < MaxStreams
    /\ Commit(MicResolved(Cur, t))

\* getUserMedia rejects for the task t.
MicFailOf(t) ==
  /\ t \in BagToSet(tasks)
  /\ t.phase = "mic"
  /\ \E err \in {"NotAllowedError"} :
       Commit(RetryFailure(Cur, t, err, MicMaxAttempts, "micPermission",
                           "micWait", MicError(err)))

\* getUserMedia rejects for a task.
MicFail == \E t \in BagToSet(tasks) : MicFailOf(t)

\* ai.live.connect resolves for a task.
ConnOk ==
  \E t \in BagToSet(tasks) :
    /\ t.phase = "conn"
    /\ Cardinality(conns) < MaxConns
    /\ \E thrown \in OpenThrowOutcomes :
         /\ thrown = "hang" => OnOpenThrows(Cur)
         /\ Commit(ConnResolved(Cur, t, thrown))

\* ai.live.connect rejects with err for the task t.
ConnFailWith(t, err) ==
  /\ t \in BagToSet(tasks)
  /\ t.phase = "conn"
  /\ Commit(RetryFailure(Cur, t, err, ConnMaxAttempts,
                         ConnRetryStatus(t.attempt), "connWait", err))

\* ai.live.connect rejects for a task.
ConnFail ==
  \E t \in BagToSet(tasks) : \E err \in {"network", "api key"} : ConnFailWith(t, err)

\* The backoff wait of a task ends.
WaitElapse ==
  \E t \in BagToSet(tasks) :
    /\ t.phase \in {"micWait", "connWait"}
    /\ Commit(RetryNext(Cur, t, IF t.phase = "micWait" THEN "mic" ELSE "conn"))

OnErrorFrom(c) ==
  /\ c \in conns
  /\ c.state = "open"
  /\ reconnectAttemptsRef < maxReconnectAttempts => Len(reconnectTimers) < MaxTimers
  /\ Commit(Drain(onerror(Cur, c.snap)))

\* The transport reports an error on an open connection.
OnError == \E c \in conns : OnErrorFrom(c)

\* A connection is closed, by the backend or as the end of a close() of
\* stopSession, and calls onclose.
OnCloseFrom(c) ==
  /\ c \in conns
  /\ Commit(Drain(onclose([Cur EXCEPT !.conns = @ \ {c}], c.snap)))

OnClose == \E c \in conns : OnCloseFrom(c)

\* The oldest reconnect timer fires.
ReconnectTimer ==
  /\ reconnectTimers # << >>
  /\ BagCardinality(tasks) < MaxTasks
  /\ autoReconnects < MaxAuto
  /\ LET snap == Head(reconnectTimers)
         s == reconnectTimer([Cur EXCEPT !.reconnectTimers = Tail(@)], snap)
     IN  Commit([Drain(s) EXCEPT
                   !.autoReconnects = @ + 1])

\* handleOpenDashboard (lines 1331-1335).
handleOpenDashboard(s, snap) ==
  [stopAudioPlayback(stopSession(s, snap)) EXCEPT !.showDashboard = TRUE]

\* handleCloseDashboard (lines 1337-1342).
handleCloseDashboard(s) ==
  [s EXCEPT !.showDashboard = FALSE, !.propertyHistory = << >>, !.activeProperty = 0]

\* The user opens the dashboard from the header button.
OpenDashboard ==
  /\ ~showDashboard
  /\ Commit(Drain(handleOpenDashboard(Cur, Snap(Cur))))

\* The user leaves the dashboard.
CloseDashboard ==
  /\ showDashboard
  /\ Commit(handleCloseDashboard(Cur))

----------------------------------------------------------------------------
(* handleToolCall                                                          *)

\* A function call of the backend: fc.args may be missing, and so may the
\* argument the tool reads.
Call(name, hasArgs, hasQuery, query, hasIndex, index) ==
  [ id |-> 0, name |-> name, hasArgs |-> hasArgs, hasQuery |-> hasQuery,
    query |-> query, hasIndex |-> hasIndex, index |-> index ]

\* The text of a tool response: the template of lines 951-1025 and the
\* values interpolated into it.
Response(template, index, title, description, alternatives) ==
  [ template |-> template, index |-> index, title |-> title,
    description |-> description, alternatives |-> alternatives ]

\* A dispatcher that never finds the guard held.
GuardNeverHeld(s) == FALSE

\* Line 943.
GuardHeld(s) == s.isProcessingRef

\* A gallery close that also forgets the property it showed.
handleCloseGalleryForgets(s) ==
  [s EXCEPT !.showGallery = FALSE, !.showGalleryRef = FALSE, !.activeProperty = 0]

\* handleCloseGallery (lines 904-908).
handleCloseGallery(s) == [s EXCEPT !.showGallery = FALSE, !.showGalleryRef = FALSE]

\* Lines 1030-1036.
sendToolResponse(s, fc, response) ==
  IF s.sessionPromiseRef # 0
  THEN [s EXCEPT
          !.sent = Append(@, [id |-> fc.id, name |-> fc.name,
                              response |-> response, conn |-> s.sessionPromiseRef])]
  ELSE s

\* A dispatcher that sets no timer to release the guard.
ReleaseNever(s) == s

\* The finally block (lines 1039-1044).
ReleaseLater(s) == [s EXCEPT !.guardTimers = @ + 1]

\* The end of the try block and the finally block.
Respond(s, fc, response) == ReleaseLater(sendToolResponse(s, fc, response))

\* A dispatcher that leaves the lead form as it is.
LeadFormLeftOpen(s, fc) == s

\* Lines 954-960.
CloseLeadFormForSearch(s, fc) ==
  IF fc.name \in {"search_property", "show_previous_property"} /\ s.showLeadFormRef
  THEN [s EXCEPT !.showLeadForm = FALSE, !.showLeadFormRef = FALSE]
  ELSE s

\* case 'search_property' up to its await (lines 963-965).  Reading
\* fc.args.query of missing args throws, and searchProperties rejects a
\* missing query (part_002 line 475): both end in the inner catch (988-991).
\* Otherwise searchProperties filters the catalogue and records the property
\* it will show now, and resolves after its delay.
searchProperty(s, fc, snap) ==
  IF ~fc.hasArgs \/ ~fc.hasQuery
  THEN Respond(s, fc, Response("searchError", 0, 0, 0, << >>))
  ELSE [s EXCEPT
          !.lastShownPropertyId = SearchLastShown(fc.query, @),
          !.searches = @ \cup {[fc |-> fc, snap |-> snap,
                                results |-> SearchResults(fc.query, s.lastShownPropertyId)]}]

\* A history update that does not look for the property.
AddToHistoryAgain(history, property) == Append(history, property)

\* The history the deduplicating update of lines 970-975 makes.
AddToHistory(history, property) ==
  IF \E k \in DOMAIN history : history[k] = property THEN history
  ELSE Append(history, property)

\* case 'search_property' after its await (lines 966-987), for the pending
\* invocation p, and then lines 1029-1044.
searchResolved(s, p) ==
  LET s1 == [s EXCEPT !.searches = @ \ {p}]
  IN  IF Len(p.results) > 0
      THEN LET property == p.results[1]
               historyIndex == Len(p.snap.propertyHistory) + 1
           IN  Respond([s1 EXCEPT
                          !.activeProperty = property,
                          !.propertyHistory = AddToHistory(@, property),
                          !.showGallery = TRUE,
                          !.showGalleryRef = TRUE],
                       p.fc,
                       Response("found", historyIndex, property, property, << >>))
      ELSE LET alternatives == getAlternativeLocations(p.fc.query)
           IN  IF Len(alternatives) > 0
               THEN Respond(s1, p.fc, Response("alternatives", 0, 0, 0, alternatives))
               ELSE Respond(s1, p.fc, Response("nothingAvailable", 0, 0, 0, << >>))

\* fc.args.index || 1 (line 994): a missing index and the index 0 are falsy.
IndexOrOne(fc) == IF fc.hasIndex /\ fc.index # 0 THEN fc.index ELSE 1

\* case 'show_previous_property' (lines 993-1004).  Reading fc.args.index of
\* missing args throws out of the try block, past the sending of the
\* response, into the catch of line 1037.
showPreviousProperty(s, fc, snap) ==
  IF ~fc.hasArgs THEN ReleaseLater(s)
  ELSE LET index == IndexOrOne(fc) - 1
       IN  IF index >= 0 /\ index < Len(snap.propertyHistory)
           THEN LET prevProperty == snap.propertyHistory[index + 1]
                IN  Respond([s EXCEPT
                               !.activeProperty = prevProperty,
                               !.showGallery = TRUE,
                               !.showGalleryRef = TRUE],
                            fc, Response("previous", index + 1, prevProperty, 0, << >>))
           ELSE Respond(s, fc, Response("noSuchNumber", Len(snap.propertyHistory),
                                        0, 0, << >>))

\* case 'open_gallery' (lines 1005-1017).
openGallery(s, fc, snap) ==
  IF snap.activeProperty # 0
  THEN IF s.showGalleryRef
       THEN Respond(s, fc, Response("alreadyOpen", 0, snap.activeProperty, 0, << >>))
       ELSE Respond([s EXCEPT !.showGallery = TRUE, !.showGalleryRef = TRUE],
                    fc, Response("opened", 0, snap.activeProperty, 0, << >>))
  ELSE Respond(s, fc, Response("searchFirst", 0, 0, 0, << >>))

\* handleToolCall of the render snap, up to its first await or its end
\* (lines 941-1045).
handleToolCall(s, fc, snap) ==
  IF GuardHeld(s)
  THEN [s EXCEPT !.skipped = @ \cup {fc.id}]
  ELSE LET s1 == [s EXCEPT
                    !.isProcessingRef = TRUE,
                    !.accepted = @ \cup {fc.id},
                    !.toolsUsedRef = Append(@, fc.name)]
           s2 == CloseLeadFormForSearch(s1, fc)
       IN  CASE fc.name = "search_property" -> searchProperty(s2, fc, snap)
             [] fc.name = "show_previous_property" -> showPreviousProperty(s2, fc, snap)
             [] fc.name = "open_gallery" -> openGallery(s2, fc, snap)
             [] fc.name = "close_gallery" ->
                  Respond(handleCloseGallery(s2), fc, Response("closed", 0, 0, 0, << >>))
             [] fc.name = "open_lead_form" ->
                  Respond([s2 EXCEPT !.showLeadForm = TRUE, !.showLeadFormRef = TRUE],
                          fc, Response("leadForm", 0, 0, 0, << >>))
             [] OTHER -> Respond(s2, fc, Response("done", 0, 0, 0, << >>))

\* The callback of the timer of line 1041.
guardTimer(s) == [s EXCEPT !.isProcessingRef = FALSE, !.guardTimers = @ - 1]

----------------------------------------------------------------------------
(* onmessage                                                               *)

\* An inbound message, by the fields onmessage reads.  audio is the number
\* of its audio chunk (0: it has none) and duration the playing time of that
\* chunk; toolCall is the list of its function calls.  chunks is the number
\* of audio chunks the backend has sent up to this message.
NoMessage ==
  [ audio |-> 0, duration |-> 0, chunks |-> 0,
    interrupted |-> FALSE, hasInput |-> FALSE, inputText |-> << >>,
    hasOutput |-> FALSE, outputText |-> << >>, turnComplete |-> FALSE,
    toolCall |-> << >> ]

Max(a, b) == IF a >= b THEN a ELSE b

\* An interruption that clears the active set and leaves the cursor.
stopSourcesKeepsCursor(s) == [s EXCEPT !.sourcesRef = {}]

\* Lines 1147-1149.
stopSources(s) == [s EXCEPT !.sourcesRef = {}, !.nextStartTimeRef = 0]

\* Lines 1129-1154.
onInterrupted(s, snap) ==
  LET s1 == IF s.currentInputTranscription # << >> \/ s.currentOutputTranscription # << >>
            THEN [saveInquiry(s, OrElse(s.currentInputTranscription, << "[interruption]" >>),
                              OrElse(s.currentOutputTranscription, << "[interrupted]" >>),
                              snap.activeProperty, s.toolsUsedRef, "interrupted",
                              s.turnStartTimeRef)
                    EXCEPT !.toolsUsedRef = << >>,
                           !.currentInputTranscription = << >>,
                           !.currentOutputTranscription = << >>]
            ELSE s
      s2 == stopSources(s1)
  IN  IF s2.showGalleryRef
      THEN [s2 EXCEPT !.showGallery = FALSE, !.showGalleryRef = FALSE]
      ELSE s2

\* An accumulator that puts the new fragment first.
onInputTranscriptionPrepend(s, text) ==
  [s EXCEPT
     !.turnStartTimeRef = IF @ = 0 THEN Date_now ELSE @,
     !.currentInputTranscription = text \o @]

\* Lines 1156-1162.
onInputTranscription(s, text) ==
  [s EXCEPT
     !.turnStartTimeRef = IF @ = 0 THEN Date_now ELSE @,
     !.currentInputTranscription = @ \o text]

\* Lines 1163-1165.
onOutputTranscription(s, text) ==
  [s EXCEPT !.currentOutputTranscription = @ \o text]

\* A turn-complete branch that saves the record whatever the texts are.
onTurnCompleteAlwaysSaves(s, snap) ==
  LET userMsg == s.currentInputTranscription
      botMsg == s.currentOutputTranscription
      s1 == [s EXCEPT
               !.transcript = LastN(Append(@, [user |-> userMsg, model |-> botMsg]),
                                    TranscriptKeep)]
      s2 == saveInquiry(s1, userMsg, botMsg, snap.activeProperty,
                        s.toolsUsedRef, "complete", s.turnStartTimeRef)
  IN  [s2 EXCEPT
         !.currentInputTranscription = << >>,
         !.currentOutputTranscription = << >>,
         !.toolsUsedRef = << >>,
         !.turnStartTimeRef = 0]

\* Lines 1167-1186.
onTurnComplete(s, snap) ==
  LET userMsg == s.currentInputTranscription
      botMsg == s.currentOutputTranscription
      s1 == [s EXCEPT
               !.transcript = LastN(Append(@, [user |-> userMsg, model |-> botMsg]),
                                    TranscriptKeep)]
      s2 == IF userMsg # << >> \/ botMsg # << >>
            THEN saveInquiry(s1, userMsg, botMsg, snap.activeProperty,
                             s.toolsUsedRef, "complete", s.turnStartTimeRef)
            ELSE s1
  IN  [s2 EXCEPT
         !.currentInputTranscription = << >>,
         !.currentOutputTranscription = << >>,
         !.toolsUsedRef = << >>,
         !.turnStartTimeRef = 0]

\* Lines 1188-1192: the calls are dispatched in order, none awaited.
RECURSIVE onToolCall(_, _, _)
onToolCall(s, functionCalls, snap) ==
  IF functionCalls = << >> THEN s
  ELSE onToolCall(handleToolCall(s, Head(functionCalls), snap), Tail(functionCalls), snap)

\* Lines 1129-1192: onmessage after its audio chunk, if it had one.
onmessageRest(s, snap, m) ==
  LET s1 == IF m.interrupted
            THEN [onInterrupted(s, snap) EXCEPT !.interruptedUpTo = Max(@, m.chunks)]
            ELSE s
      s2 == IF m.hasInput THEN onInputTranscription(s1, m.inputText) ELSE s1
      s3 == IF m.hasOutput THEN onOutputTranscription(s2, m.outputText) ELSE s2
      s4 == IF m.turnComplete THEN onTurnComplete(s3, snap) ELSE s3
  IN  onToolCall(s4, m.toolCall, snap)

\* decodeAudioData (services/audioHelpers, awaited at line 1115): the
\* playable buffer of the chunk of m, which is ready some time after the
\* call.
decodeAudioData(m) == [chunk |-> m.audio, duration |-> m.duration]

\* Lines 1113-1115: the cursor is raised to the clock and the decoding is
\* awaited; the invocation is suspended with the rest of its message.
onAudioData(s, snap, m) ==
  [s EXCEPT
     !.nextStartTimeRef = Max(@, s.currentTime),
     !.decodes = @ \cup {[buffer |-> decodeAudioData(m), snap |-> snap, m |-> m]}]

\* Lines 1120-1126: a source for the buffer is started at the cursor, the
\* cursor is moved by the buffer's duration, and the source joins the active
\* set.  A source started at a time already past begins to play at once: at
\* is when it begins and end when it has played.
playBuffer(s, buffer) ==
  LET when == s.nextStartTimeRef
      at == Max(when, s.currentTime)
  IN  [s EXCEPT
         !.nextStartTimeRef = @ + buffer.duration,
         !.sourcesRef = @ \cup {[chunk |-> buffer.chunk, when |-> when, at |-> at,
                                  end |-> at + buffer.duration]}]

\* The decoding awaited by the invocation d is done (lines 1117-1192).
decodeResolved(s, d) ==
  LET s1 == [s EXCEPT !.decodes = @ \ {d}]
  IN  IF s1.outputAudioContextRef = 0 THEN s1
      ELSE onmessageRest(playBuffer(s1, d.buffer), d.snap, d.m)

\* onmessage of a connection made by the render snap (lines 1106-1196), up
\* to its await or its end.
onmessage(s, snap, m) ==
  IF s.sessionRef = 0 THEN s
  ELSE IF m.audio # 0 /\ s.outputAudioContextRef # 0
       THEN onAudioData(s, snap, m)
       ELSE onmessageRest(s, snap, m)

----------------------------------------------------------------------------
(* Actions of the backend's messages and of the dispatcher's timers        *)

\* The fragments the connection has sent in its current turn, after it has
\* sent m: a turn-complete or an interruption marker begins a new turn.
FragmentsAfter(frags, m) ==
  IF m.turnComplete \/ m.interrupted THEN NoFragments
  ELSE [ input |-> IF m.hasInput THEN Append(frags.input, m.inputText) ELSE frags.input,
         output |-> IF m.hasOutput THEN Append(frags.output, m.outputText) ELSE frags.output ]

\* The open connection c delivers the message m; its function calls get the
\* next ids of the backend and its audio chunk, if it has one, the next
\* number.
Deliver(c, m) ==
  /\ c \in conns
  /\ c.state = "open"
  /\ LET calls == [k \in DOMAIN m.toolCall |-> [m.toolCall[k] EXCEPT !.id = callSeq + k]]
         chunks == IF m.audio # 0 THEN chunkSeq + 1 ELSE chunkSeq
         s == onmessage(Cur, c.snap,
                        [m EXCEPT !.toolCall = calls,
                                  !.audio = IF @ # 0 THEN chunks ELSE 0,
                                  !.chunks = chunks])
     IN  Commit([s EXCEPT
                   !.callSeq = @ + Len(calls),
                   !.chunkSeq = chunks,
                   !.conns = (@ \ {c}) \cup {[c EXCEPT !.frags = FragmentsAfter(@, m)]}])

\* The queries, by the keywords they include: villas in Riyadh (three
\* results), villas in Hittin (one), flats in Dammam (none).
Queries == { {"villa", "riyadh"}, {"villa", "hittin"}, {"shaqqa", "dammam"} }

Indexes == {-1, 0, 1, 2}

ToolCalls ==
  {Call("search_property", TRUE, TRUE, q, FALSE, 0) : q \in Queries}
  \cup {Call("search_property", FALSE, FALSE, {}, FALSE, 0)}
  \cup {Call("show_previous_property", TRUE, FALSE, {}, TRUE, i) : i \in Indexes}
  \cup {Call("show_previous_property", FALSE, FALSE, {}, FALSE, 0)}
  \cup {Call(name, TRUE, FALSE, {}, FALSE, 0) :
          name \in {"open_gallery", "close_gallery", "open_lead_form", "get_weather"}}

ToolCallMessage(c, call) ==
  /\ callSeq < MaxCalls
  /\ Deliver(c, [NoMessage EXCEPT !.toolCall = << call >>])

\* A message with one function call arrives.
ToolCall == \E c \in conns : \E call \in ToolCalls : ToolCallMessage(c, call)

SearchSettles(p) ==
  /\ p \in searches
  /\ Commit(searchResolved(Cur, p))

\* The promise of searchProperties resolves.
SearchSettle == \E p \in searches : SearchSettles(p)

\* The timer of line 1041 fires.
GuardTimer ==
  /\ guardTimers > 0
  /\ Commit(guardTimer(Cur))

\* The fragments of transcript text: the empty text, and two tokens.
Fragments == { << >>, << "a" >>, << "b" >> }

\* A message with a fragment of the user's speech arrives.
InputTranscription ==
  \E c \in conns : \E text \in Fragments :
    /\ Len(c.frags.input) < MaxFrags
    /\ Len(inquiries) < MaxLog
    /\ Deliver(c, [NoMessage EXCEPT !.hasInput = TRUE, !.inputText = text])

\* A message with a fragment of the assistant's speech arrives.
OutputTranscription ==
  \E c \in conns : \E text \in Fragments :
    /\ Len(c.frags.output) < MaxFrags
    /\ Len(inquiries) < MaxLog
    /\ Deliver(c, [NoMessage EXCEPT !.hasOutput = TRUE, !.outputText = text])

TurnCompleteFrom(c) ==
  /\ Len(transcript) < MaxTurns
  /\ Deliver(c, [NoMessage EXCEPT !.turnComplete = TRUE])

\* A message with the turn-complete marker arrives.
TurnComplete == \E c \in conns : TurnCompleteFrom(c)

InterruptedFrom(c) == Deliver(c, [NoMessage EXCEPT !.interrupted = TRUE])

\* A message with the interruption marker arrives.
Interrupted == \E c \in conns : InterruptedFrom(c)

\* Nothing of a session is in flight.
Quiet == tasks = EmptyBag /\ conns = {} /\ reconnectTimers = << >>

\* The user starts a session when none is in flight, and stops the active one.
UserStart == ~isRecording /\ Quiet /\ ToggleSession
UserStop == isRecording /\ ToggleSession

----------------------------------------------------------------------------
(* The session lifecycle: the user, the microphone, the transport and the  *)
(* timers, with no inbound message.                                        *)

NextSession ==
  \/ ToggleSession
  \/ MicOk
  \/ MicFail
  \/ ConnOk
  \/ ConnFail
  \/ WaitElapse
  \/ OnError
  \/ OnClose
  \/ ReconnectTimer

SpecSession == Init /\ [][NextSession]_vars

\* The scenario of a session that loses its connection again and again: the
\* user starts when nothing is in flight, and the connection the session
\* holds reports an error when no reconnect is pending.
NextReconnect ==
  \/ UserStart
  \/ UserStop
  \/ MicOk
  \/ MicFail
  \/ ConnOk
  \/ ConnFail
  \/ WaitElapse
  \/ \E c \in conns :
       c.id = sessionRef /\ reconnectTimers = << >> /\ OnErrorFrom(c)
  \/ OnClose
  \/ ReconnectTimer

SpecReconnect == Init /\ [][NextReconnect]_vars

OpenConns == {c \in conns : c.state = "open"}

\* C1: within one session started by the user, the reconnect timers make at
\* most maxReconnectAttempts automatic reconnects.
C1_ReconnectsCapped == autoReconnects <= maxReconnectAttempts

\* C2: a start invoked by the user while an earlier start is still
\* connecting is a no-op: it begins no second start (no second microphone
\* request, from which the second contexts and connection would follow).
C2_SecondStartNoOp ==
  [][(~isRecording /\ tasks # EmptyBag /\ ToggleSession) => tasks' = tasks]_vars

\* C3: at most one live backend connection, one microphone stream and one
\* output audio resource exist.
C3_ExclusiveResources ==
  /\ Cardinality(OpenConns) <= 1
  /\ liveStreams <= 1
  /\ openOutputContexts <= 1

----------------------------------------------------------------------------
(* The tool dispatcher: one user-started session at a time, whose function *)
(* calls, searches and cool-down timers interleave with stop and close.    *)

\* The user closes the gallery (Gallery onClose, line 1438).
CloseGallery ==
  /\ ~showDashboard /\ showGallery /\ activeProperty # 0
  /\ Commit(handleCloseGallery(Cur))

\* The user presses "interested" in the gallery (lines 1439-1442).
Interested ==
  /\ ~showDashboard /\ showGallery /\ activeProperty # 0
  /\ Commit([Cur EXCEPT !.showLeadForm = TRUE, !.showLeadFormRef = TRUE])

NextTools ==
  \/ UserStart
  \/ UserStop
  \/ MicOk
  \/ ConnOk
  \/ OnClose
  \/ ToolCall
  \/ SearchSettle
  \/ GuardTimer
  \/ CloseGallery
  \/ Interested

SpecTools == Init /\ [][NextTools]_vars

\* The dispatcher without the user's gallery actions, where timers fire and
\* the promise of searchProperties resolves.
NextGuard ==
  \/ UserStart
  \/ UserStop
  \/ MicOk
  \/ ConnOk
  \/ OnClose
  \/ ToolCall
  \/ SearchSettle
  \/ GuardTimer

SpecGuardFair ==
  Init /\ [][NextGuard]_vars /\ WF_vars(SearchSettle) /\ WF_vars(GuardTimer)

\* The responses sent for the invocation id.
ResponsesTo(id) == {k \in DOMAIN sent : sent[k].id = id}

\* The elements of a sequence.
Range(seq) == {seq[k] : k \in DOMAIN seq}

\* A function call is dropped: nothing the dispatcher shares changes and
\* nothing is sent or started.
Dropped ==
  /\ activeProperty' = activeProperty
  /\ propertyHistory' = propertyHistory
  /\ showGallery' = showGallery /\ showGalleryRef' = showGalleryRef
  /\ showLeadForm' = showLeadForm /\ showLeadFormRef' = showLeadFormRef
  /\ toolsUsedRef' = toolsUsedRef
  /\ lastShownPropertyId' = lastShownPropertyId
  /\ sent' = sent
  /\ searches' = searches
  /\ guardTimers' = guardTimers
  /\ accepted' = accepted

\* C4: at most one invocation is in flight (awaiting its search or in its
\* cool-down), and a function call delivered while the guard is held changes
\* none of the active property, the history, the gallery and lead-form flags
\* and the tools-used list, and no response is sent for it.
C4_GuardedDispatch ==
  /\ [](/\ Cardinality(searches) + guardTimers <= 1
        /\ (searches # {} \/ guardTimers > 0) => isProcessingRef)
  /\ [][\A c \in conns : \A call \in ToolCalls :
          (isProcessingRef /\ ToolCallMessage(c, call)) => Dropped]_vars

C4_Witness ==
  /\ skipped # {}
  /\ searches # {}
  /\ \E p \in searches : \E id \in skipped : id > p.fc.id

\* C5: every accepted invocation that is no longer awaiting its search has
\* exactly one response sent with its id.
C5_OneResponse ==
  \A id \in accepted :
    \/ \E p \in searches : p.fc.id = id
    \/ Cardinality(ResponsesTo(id)) = 1

\* C6: whenever the guard is held it is later free again.
C6_GuardReleased == isProcessingRef ~> ~isProcessingRef

C6_Witness ==
  /\ ~isProcessingRef
  /\ sessionRef = 0
  /\ \E id \in accepted : ResponsesTo(id) = {}
  /\ Cardinality(accepted) >= 2

\* C7: an accepted show_previous_property with index i, 1 <= i <=
\* Len(propertyHistory), makes propertyHistory[i] the active property and
\* shows the gallery; with any other i it leaves the active property and
\* answers that there is no property of that number.
C7_ShowPrevious ==
  [][\A c \in conns : \A i \in Indexes :
       (/\ ~isProcessingRef
        /\ sessionRef # 0
        /\ ToolCallMessage(c, Call("show_previous_property", TRUE, FALSE, {}, TRUE, i)))
       => IF 1 <= i /\ i <= Len(propertyHistory)
          THEN activeProperty' = propertyHistory[i] /\ showGallery'
          ELSE /\ activeProperty' = activeProperty
               /\ Len(sent') = Len(sent) + 1
               /\ sent'[Len(sent')].response.template = "noSuchNumber"]_vars

\* What C8 states of a search that resolves with results, but for the
\* history, which is given by HistoryAfter.
SearchShows(p, HistoryAfter(_, _)) ==
  (Len(p.results) > 0 /\ SearchSettles(p)) =>
     LET property == p.results[1]
     IN  /\ property \in MatchingIds(p.fc.query)
         /\ activeProperty' = property
         /\ propertyHistory' = HistoryAfter(propertyHistory, property)
         /\ showGallery' /\ showGalleryRef'
         /\ sessionPromiseRef # 0 =>
              /\ Len(sent') = Len(sent) + 1
              /\ sent'[Len(sent')].id = p.fc.id
              /\ sent'[Len(sent')].response.description = property

AppendedAlways(history, property) == Append(history, property)

AppendedIfNew(history, property) ==
  IF property \in Range(history) THEN history ELSE Append(history, property)

\* C8 as stated: a search_property that resolves with results makes the
\* first result the active property, appends it to the history, shows the
\* gallery and answers with a text carrying the property's description.
C8_AppendsAlways == [][\A p \in searches : SearchShows(p, AppendedAlways)]_vars

\* C8, amended: a search_property that resolves with results makes the first
\* result the active property, appends it to the history unless the history
\* already lists it, shows the gallery, and the text sent (when a session is
\* still held) carries the property's description.
C8_AppendsIfNew == [][\A p \in searches : SearchShows(p, AppendedIfNew)]_vars

C8_Witness ==
  /\ Len(propertyHistory) = 1
  /\ Cardinality({k \in DOMAIN sent : sent[k].response.template = "found"}) = 2
  /\ showGallery

\* The search calls whose query has no result now.
EmptySearches ==
  {call \in ToolCalls :
     /\ call.name = "search_property" /\ call.hasArgs /\ call.hasQuery
     /\ SearchResults(call.query, lastShownPropertyId) = << >>}

\* What C9 states of a search without results: the step that accepts it and
\* the step in which it resolves leave the history, the active property and
\* the gallery flag, and the answer names the alternatives.  LeadFormAfter is
\* the lead-form flag after the accepting step.
EmptySearchFrame(LeadFormAfter(_)) ==
  /\ \A c \in conns : \A call \in EmptySearches :
       (~isProcessingRef /\ sessionRef # 0 /\ ToolCallMessage(c, call)) =>
          /\ propertyHistory' = propertyHistory
          /\ activeProperty' = activeProperty
          /\ showGallery' = showGallery /\ showGalleryRef' = showGalleryRef
          /\ showLeadForm' = LeadFormAfter(showLeadForm)
          /\ showLeadFormRef' = LeadFormAfter(showLeadFormRef)
  /\ \A p \in searches :
       (/\ Len(p.results) = 0
        /\ Len(getAlternativeLocations(p.fc.query)) > 0
        /\ SearchSettles(p)) =>
          /\ propertyHistory' = propertyHistory
          /\ activeProperty' = activeProperty
          /\ showGallery' = showGallery /\ showGalleryRef' = showGalleryRef
          /\ showLeadForm' = showLeadForm /\ showLeadFormRef' = showLeadFormRef
          /\ sessionPromiseRef # 0 =>
               /\ Len(sent') = Len(sent) + 1
               /\ sent'[Len(sent')].id = p.fc.id
               /\ sent'[Len(sent')].response.template = "alternatives"
               /\ sent'[Len(sent')].response.alternatives
                    = getAlternativeLocations(p.fc.query)

LeadFormKept(flag) == flag

LeadFormClosed(flag) == FALSE

\* C9 as stated: a search_property without results and with alternatives
\* answers with the alternatives and leaves the history, the active property
\* and the gallery and lead-form flags as they were.
C9_FlagsKept == [][EmptySearchFrame(LeadFormKept)]_vars

\* C9, amended: a search_property without results and with alternatives
\* answers with the alternatives and leaves the history, the active property
\* and the gallery flag as they were; the lead form is closed when the call
\* is accepted.
C9_LeadFormClosed == [][EmptySearchFrame(LeadFormClosed)]_vars

C9_Witness ==
  /\ ~showLeadForm
  /\ \E j, k \in DOMAIN sent :
       /\ j < k
       /\ sent[j].response.template = "leadForm"
       /\ sent[k].response.template = "alternatives"
       /\ sent[k].id = sent[j].id + 1

----------------------------------------------------------------------------
(* The turn log: one user-started session at a time, whose transcript      *)
(* fragments and markers interleave with stop and close.                   *)

NextTurns ==
  \/ UserStart
  \/ UserStop
  \/ MicOk
  \/ ConnOk
  \/ OnClose
  \/ InputTranscription
  \/ OutputTranscription
  \/ TurnComplete
  \/ Interrupted

SpecTurns == Init /\ [][NextTurns]_vars

\* The concatenation of the texts of a sequence of fragments.
RECURSIVE Concat(_)
Concat(frags) == IF frags = << >> THEN << >> ELSE Head(frags) \o Concat(Tail(frags))

\* The step appends one record, of status complete and with these texts.
AppendsComplete(user, bot) ==
  /\ Len(inquiries') = Len(inquiries) + 1
  /\ SubSeq(inquiries', 1, Len(inquiries)) = inquiries
  /\ inquiries'[Len(inquiries')].status = "complete"
  /\ inquiries'[Len(inquiries')].userMessage = user
  /\ inquiries'[Len(inquiries')].botResponse = bot

TurnOpen ==
  \/ currentInputTranscription # << >>
  \/ currentOutputTranscription # << >>
  \/ toolsUsedRef # << >>

\* The turn state after the step is that of a new turn.
TurnCleared ==
  /\ currentInputTranscription' = << >>
  /\ currentOutputTranscription' = << >>
  /\ toolsUsedRef' = << >>
  /\ turnStartTimeRef' = 0

\* The step appends one record, of this status, with the partial texts of
\* the turn, a placeholder standing for an empty one.
AppendsPartial(status, userPlaceholder, botPlaceholder) ==
  /\ Len(inquiries') = Len(inquiries) + 1
  /\ SubSeq(inquiries', 1, Len(inquiries)) = inquiries
  /\ inquiries'[Len(inquiries')].status = status
  /\ inquiries'[Len(inquiries')].userMessage
       = OrElse(currentInputTranscription, << userPlaceholder >>)
  /\ inquiries'[Len(inquiries')].botResponse
       = OrElse(currentOutputTranscription, << botPlaceholder >>)
  /\ inquiries'[Len(inquiries')].toolsUsed = toolsUsedRef

\* C11: an interruption marker that arrives while a turn is open appends one
\* record of status interrupted with the partial texts, and leaves the input
\* text, the output text, the tools-used list and the turn's start time
\* reset.
C11_InterruptedClears ==
  [][\A c \in conns :
       (sessionRef # 0 /\ TurnOpen /\ InterruptedFrom(c)) =>
          /\ AppendsPartial("interrupted", "[interruption]", "[interrupted]")
          /\ TurnCleared]_vars

----------------------------------------------------------------------------
(* The turn log with function calls: one user-started session at a time,   *)
(* whose fragments, markers and function calls interleave with stop and    *)
(* close.                                                                  *)

\* A function call that is answered at once and shows nothing.
PlainCall == Call("get_weather", TRUE, FALSE, {}, FALSE, 0)

\* A message with one such function call arrives.
PlainToolCall == \E c \in conns : ToolCallMessage(c, PlainCall)

\* A message with the fragment "a" of the user's speech arrives.
InputWord ==
  \E c \in conns :
    /\ Len(c.frags.input) < MaxFrags
    /\ Len(inquiries) < MaxLog
    /\ Deliver(c, [NoMessage EXCEPT !.hasInput = TRUE, !.inputText = << "a" >>])

\* A message with the fragment "b" of the assistant's speech arrives.
OutputWord ==
  \E c \in conns :
    /\ Len(c.frags.output) < MaxFrags
    /\ Len(inquiries) < MaxLog
    /\ Deliver(c, [NoMessage EXCEPT !.hasOutput = TRUE, !.outputText = << "b" >>])

NextLog ==
  \/ UserStart
  \/ UserStop
  \/ MicOk
  \/ ConnOk
  \/ OnClose
  \/ PlainToolCall
  \/ GuardTimer
  \/ InputWord
  \/ OutputWord
  \/ TurnComplete
  \/ Interrupted

SpecLog == Init /\ [][NextLog]_vars

\* A step in which stopSession is called: by the user's button, or by the
\* onclose callback of a connection.
StopCalled ==
  \/ UserStop
  \/ \E c \in conns :
       /\ reconnectAttemptsRef >= maxReconnectAttempts \/ ~c.snap.isRecording
       /\ OnCloseFrom(c)

\* The turn holds partial text.
TextOpen == currentInputTranscription # << >> \/ currentOutputTranscription # << >>

\* The step leaves the turn state and the log as they are.
TurnUntouched ==
  /\ currentInputTranscription' = currentInputTranscription
  /\ currentOutputTranscription' = currentOutputTranscription
  /\ toolsUsedRef' = toolsUsedRef
  /\ turnStartTimeRef' = turnStartTimeRef
  /\ inquiries' = inquiries

\* C12: a stop called while the turn holds partial text appends exactly one
\* record of status session_end and leaves the turn state clear; until a
\* session is held again nothing changes the turn state or the log, so a
\* repeated stop appends nothing and the next start finds the turn clear.
C12_SessionEndOnce ==
  /\ [][(TextOpen /\ StopCalled) =>
          /\ AppendsPartial("session_end", "[session end]", "[session ended]")
          /\ TurnCleared]_vars
  /\ [][sessionRef = 0 => TurnUntouched]_vars

C12_Witness ==
  /\ sessionRef # 0
  /\ currentInputTranscription = << >> /\ currentOutputTranscription = << >>
  /\ toolsUsedRef = << >> /\ turnStartTimeRef = 0
  /\ Len(inquiries) = 1
  /\ inquiries[1].status = "session_end"
  /\ inquiries[1].toolsUsed # << >>
  /\ inquiries[1].botResponse = << "[session ended]" >>

\* A step that closes the turn of the session held: a turn-complete marker,
\* an interruption marker, or a stop.
TurnCloses == sessionRef # 0 /\ (TurnComplete \/ Interrupted \/ StopCalled)

\* C13: an open turn, opened by a fragment or by a function call alone, is
\* flushed when it is closed: the step appends exactly one record, which
\* carries the turn's tool names, and the tools-used list is empty after it,
\* so that the names appear in no other record.
C13_OneFlushPerTurn ==
  [][(TurnOpen /\ TurnCloses) =>
       /\ Len(inquiries') = Len(inquiries) + 1
       /\ SubSeq(inquiries', 1, Len(inquiries)) = inquiries
       /\ inquiries'[Len(inquiries')].toolsUsed = toolsUsedRef
       /\ toolsUsedRef' = << >>]_vars

\* C14: a turn-complete marker, an interruption marker or a stop that finds
\* no text and no function call in the turn appends no record.
C14_EmptyTurnNotFlushed ==
  [][(~TurnOpen /\ (TurnComplete \/ Interrupted \/ StopCalled)) =>
       inquiries' = inquiries]_vars

C14_Witness ==
  /\ sessionRef = 0 /\ conns = {}
  /\ Len(transcript) = 2
  /\ transcript[2] = [user |-> << >>, model |-> << >>]
  /\ Len(inquiries) = 1
  /\ inquiries[1].status = "complete"

----------------------------------------------------------------------------
(* Playback: one user-started session at a time, whose audio chunks,       *)
(* decodings and interruption markers interleave with the clock, with the  *)
(* lead form and with stop and close.                                      *)

\* The playing times of the chunks.
Durations == {1, 2}

AudioChunkFrom(c, duration) ==
  /\ chunkSeq < MaxChunks
  /\ Deliver(c, [NoMessage EXCEPT !.audio = 1, !.duration = duration])

\* A message with an audio chunk arrives.
AudioChunk ==
  \E c \in conns : \E duration \in Durations : AudioChunkFrom(c, duration)

DecodeSettles(d) ==
  /\ d \in decodes
  /\ Commit(decodeResolved(Cur, d))

\* The promise of decodeAudioData resolves for a suspended invocation.
DecodeSettle == \E d \in decodes : DecodeSettles(d)

\* The clock of the output context advances.
Tick ==
  /\ outputAudioContextRef # 0
  /\ currentTime < MaxTime
  /\ Commit([Cur EXCEPT !.currentTime = @ + 1])

\* A source has played its buffer: onended (line 1126).
SourceEnded ==
  \E source \in sourcesRef :
    /\ outputAudioContextRef # 0
    /\ currentTime >= source.end
    /\ Commit([Cur EXCEPT !.sourcesRef = @ \ {source}])

\* handleCloseLeadForm (lines 935-939).
handleCloseLeadForm(s) ==
  stopAudioPlayback([s EXCEPT !.showLeadForm = FALSE, !.showLeadFormRef = FALSE])

\* onSubmitSuccess of the lead form (lines 1451-1457).
onSubmitSuccess(s) ==
  [stopAudioPlayback([s EXCEPT !.showLeadForm = FALSE, !.showLeadFormRef = FALSE])
     EXCEPT !.statusMessage = "leadReceived"]

\* The user closes the lead form.
CloseLeadForm ==
  /\ ~showDashboard /\ showLeadForm
  /\ Commit(handleCloseLeadForm(Cur))

\* The lead form reports that the lead was submitted.
SubmitSuccess ==
  /\ ~showDashboard /\ showLeadForm
  /\ Commit(onSubmitSuccess(Cur))

\* A message with the function call open_lead_form arrives.
LeadFormCall ==
  \E c \in conns :
    ToolCallMessage(c, Call("open_lead_form", TRUE, FALSE, {}, FALSE, 0))

NextAudio ==
  \/ UserStart
  \/ UserStop
  \/ MicOk
  \/ ConnOk
  \/ OnClose
  \/ AudioChunk
  \/ DecodeSettle
  \/ Interrupted
  \/ Tick
  \/ SourceEnded
  \/ LeadFormCall
  \/ GuardTimer
  \/ CloseLeadForm
  \/ SubmitSuccess

SpecAudio == Init /\ [][NextAudio]_vars

\* C15: when the handler of a message with the interruption marker has
\* returned, the active set is empty and the cursor is zero.
C15_InterruptionClears ==
  [][Interrupted => (sourcesRef' = {} /\ nextStartTimeRef' = 0)]_vars

\* Two chunks were scheduled and then interrupted before the clock moved.
C15_Witness ==
  /\ sessionRef # 0 /\ outputAudioContextRef # 0
  /\ interruptedUpTo = 2
  /\ decodes = {}
  /\ currentTime = 0
  /\ sourcesRef = {} /\ nextStartTimeRef = 0

\* C16: no chunk that was sent before an interruption marker already
\* handled is in the active set.
C16_NoStaleAudio ==
  \A source \in sourcesRef : source.chunk > interruptedUpTo

\* C17: while a session is held, a step lowers the cursor only by resetting
\* it to zero, and only when it handles an interruption marker or stops the
\* session.
C17_CursorMonotone ==
  [][(sessionRef # 0 /\ nextStartTimeRef' < nextStartTimeRef) =>
       /\ nextStartTimeRef' = 0
       /\ Interrupted \/ StopCalled]_vars

\* C18: of two chunks in the active set, the one that arrived first begins
\* to play first, and the other begins no earlier than the first one ends.
C18_PlaybackInOrder ==
  \A a, b \in sourcesRef :
    a.chunk < b.chunk => (a.at <= b.at /\ a.end <= b.at)

\* A step in which the playback is torn down: stopAudioPlayback is called,
\* or stopSession, which holds the same statements (lines 1282-1301).
Teardown == StopCalled \/ CloseLeadForm \/ SubmitSuccess

\* C19: a teardown leaves the active set empty, the cursor at zero and the
\* output context closed and dropped; and while no output context is held
\* no step adds a source to the active set.
C19_TeardownReleases ==
  /\ [][Teardown =>
          /\ sourcesRef' = {}
          /\ nextStartTimeRef' = 0
          /\ outputAudioContextRef' = 0
          /\ openOutputContexts' = 0]_vars
  /\ [][outputAudioContextRef = 0 => sourcesRef' \subseteq sourcesRef]_vars

\* A chunk arrived and another was still being decoded after the lead form
\* was closed in a session that goes on, and nothing is scheduled.
C19_Witness ==
  /\ sessionRef # 0 /\ isRecording
  /\ outputAudioContextRef = 0
  /\ ~showLeadForm /\ callSeq > 0
  /\ chunkSeq = 2
  /\ decodes = {}
  /\ sourcesRef = {} /\ nextStartTimeRef = 0

----------------------------------------------------------------------------
(* withRetry (lines 715-764) called with any maxAttempts, as a state       *)
(* machine of its own: fn resolves or rejects, the backoff ends, and the   *)
(* controller is aborted.                                                  *)

\* A loop head that lets one attempt more through.
retryLoopOneMore(s, r) ==
  IF r.attempt <= r.maxAttempts + 1
  THEN IF SignalAborted(s)
       THEN [r EXCEPT !.phase = "thrown", !.thrown = "Connection cancelled"]
       ELSE [r EXCEPT !.phase = "call", !.invocations = @ + 1]
  ELSE [r EXCEPT !.phase = "thrown", !.thrown = r.lastError]

\* The head of the loop for r.attempt (lines 726-733), and line 763 when the
\* loop is over.
retryLoop(s, r) ==
  IF r.attempt <= r.maxAttempts
  THEN IF SignalAborted(s)
       THEN [r EXCEPT !.phase = "thrown", !.thrown = "Connection cancelled"]
       ELSE [r EXCEPT !.phase = "call", !.invocations = @ + 1]
  ELSE [r EXCEPT !.phase = "thrown", !.thrown = r.lastError]

\* withRetry(fn, {maxAttempts, onRetry}) up to its first await (lines
\* 722-733); onRetry is whether the options hold one.
withRetry(s, maxAttempts, onRetry) ==
  retryLoop(s, [NoRetry EXCEPT !.maxAttempts = maxAttempts, !.onRetry = onRetry,
                               !.attempt = 1])

\* Line 723.
delays == << 500, 1000, 2000 >>

\* The delay of setTimeout(resolve, delays[attempt - 1]) (line 753): past
\* the end of the array the delay is undefined, and the timer is set with 0.
BackoffDelay(attempt) == IF attempt \in DOMAIN delays THEN delays[attempt] ELSE 0

\* A catch block that calls onRetry after the last attempt as well.
retryCatchObservesLast(s, r, err) ==
  LET r1 == [r EXCEPT !.lastError = err]
  IN  IF IsFatal(err) THEN [r1 EXCEPT !.phase = "thrown", !.thrown = err]
      ELSE IF r.attempt < r.maxAttempts
           THEN [r1 EXCEPT !.phase = "wait", !.ctl = s.abortControllerRef.id,
                           !.observed = IF r.onRetry THEN Append(@, r.attempt) ELSE @,
                           !.waits = Append(@, BackoffDelay(r.attempt))]
           ELSE retryLoop(s, [r1 EXCEPT !.attempt = @ + 1,
                                        !.observed = IF r.onRetry THEN Append(@, r.attempt) ELSE @])

\* A catch block that classifies no error as fatal.
retryCatchAllTransient(s, r, err) ==
  LET r1 == [r EXCEPT !.lastError = err]
  IN  IF r.attempt < r.maxAttempts
      THEN [r1 EXCEPT !.phase = "wait", !.ctl = s.abortControllerRef.id,
                      !.observed = IF r.onRetry THEN Append(@, r.attempt) ELSE @,
                      !.waits = Append(@, BackoffDelay(r.attempt))]
      ELSE retryLoop(s, [r1 EXCEPT !.attempt = @ + 1])

\* fn rejected with err (lines 734-760).
retryCatch(s, r, err) ==
  LET r1 == [r EXCEPT !.lastError = err]
  IN  IF IsFatal(err) THEN [r1 EXCEPT !.phase = "thrown", !.thrown = err]
      ELSE IF r.attempt < r.maxAttempts
           THEN [r1 EXCEPT !.phase = "wait", !.ctl = s.abortControllerRef.id,
                           !.observed = IF r.onRetry THEN Append(@, r.attempt) ELSE @,
                           !.waits = Append(@, BackoffDelay(r.attempt))]
           ELSE retryLoop(s, [r1 EXCEPT !.attempt = @ + 1])

\* The backoff is over (line 753).
retryWaited(s, r) == retryLoop(s, [r EXCEPT !.attempt = @ + 1, !.ctl = 0])

\* The controller the backoff listens to is aborted (lines 754-757).
retryCancelled(r) == [r EXCEPT !.phase = "thrown", !.thrown = "Connection cancelled"]

\* The errors fn rejects with, by the word that classifies them.
RetryErrors ==
  {"network", "timeout", "api key", "quota", "unauthorized", "forbidden", "invalid"}

\* withRetry is called, after a new controller was made (line 1053) or
\* with the controller ref as it is.
RetryCall ==
  /\ retry.phase \in {"idle", "returned", "thrown"}
  /\ \E maxAttempts \in 1..MaxRetryAttempts : \E fresh, onRetry \in BOOLEAN :
       LET s == IF fresh
                THEN [Cur EXCEPT !.abortControllerRef = [id |-> 1, aborted |-> FALSE]]
                ELSE Cur
       IN  Commit([s EXCEPT !.retry = withRetry(s, maxAttempts, onRetry)])

\* fn resolves: withRetry returns its value (line 733).
RetryOk ==
  /\ retry.phase = "call"
  /\ Commit([Cur EXCEPT !.retry = [@ EXCEPT !.phase = "returned"]])

\* fn rejects with err.
RetryFailWith(err) ==
  /\ retry.phase = "call"
  /\ err \in RetryErrors
  /\ Commit([Cur EXCEPT !.retry = retryCatch(Cur, @, err)])

RetryFail == \E err \in RetryErrors : RetryFailWith(err)

\* The timer of the backoff fires.
RetryWaitElapse ==
  /\ retry.phase = "wait"
  /\ Commit([Cur EXCEPT !.retry = retryWaited(Cur, @)])

\* The controller is aborted and dropped (lines 1257-1260).
RetryAbort ==
  /\ abortControllerRef # NullCtl
  /\ Commit([Cur EXCEPT
               !.retry = IF @.phase = "wait" /\ @.ctl = abortControllerRef.id
                         THEN retryCancelled(@) ELSE @,
               !.abortControllerRef = NullCtl])

NextRetry ==
  \/ RetryCall
  \/ RetryOk
  \/ RetryFail
  \/ RetryWaitElapse
  \/ RetryAbort

SpecRetry == Init /\ [][NextRetry]_vars

\* C20: a call of withRetry with maxAttempts >= 1 has invoked fn at most
\* maxAttempts times, and exactly once when it returned from its first
\* attempt.
C20_AttemptsBounded ==
  /\ retry.phase # "idle" => retry.invocations <= retry.maxAttempts
  /\ (retry.phase = "returned" /\ retry.lastError = "Unknown error")
       => retry.invocations = 1

\* Every attempt of a call with maxAttempts = 3 failed with a timeout.
C20_Witness ==
  /\ retry.phase = "thrown"
  /\ retry.maxAttempts = 3
  /\ retry.invocations = 3
  /\ retry.thrown = "timeout"


\* C21: when fn rejects with a fatal error (api key, quota, unauthorized,
\* forbidden, invalid), withRetry throws that error in the same step: no
\* timer is set, onRetry is not called and fn is not invoked again; the call
\* then stays as it is until withRetry is called anew.
C21_FatalPropagates ==
  /\ [][\A err \in RetryErrors :
          (IsFatal(err) /\ RetryFailWith(err)) =>
             /\ retry'.phase = "thrown"
             /\ retry'.thrown = err
             /\ retry'.waits = retry.waits
             /\ retry'.observed = retry.observed
             /\ retry'.invocations = retry.invocations]_vars
  /\ [][(retry.phase = "thrown" /\ retry' # retry) => RetryCall]_vars

\* A call with maxAttempts = 3 whose second attempt failed with 'forbidden',
\* after one backoff.
C21_Witness ==
  /\ retry.phase = "thrown"
  /\ retry.thrown = "forbidden"
  /\ retry.maxAttempts = 3
  /\ retry.invocations = 2
  /\ retry.waits = << 500 >>

C24_ObserverPerWait ==
  /\ retry.onRetry => retry.observed = [k \in 1..Len(retry.waits) |-> k]
  /\ ~retry.onRetry => retry.observed = << >>
  /\ retry.phase \in {"returned", "thrown"} => Len(retry.waits) < retry.maxAttempts

\* A call with an onRetry and maxAttempts = 3 whose three attempts failed
\* with a timeout: onRetry was called with 1 and with 2.
C24_Witness ==
  /\ retry.phase = "thrown"
  /\ retry.onRetry
  /\ retry.maxAttempts = 3
  /\ retry.thrown = "timeout"
  /\ retry.observed = << 1, 2 >>


----------------------------------------------------------------------------
(* Starting and stopping: one start by the user at a time, the dashboard,  *)
(* the failures of the microphone and of the connection, and the errors of *)
(* the transport.                                                          *)

\* The errors ai.live.connect rejects with, by the word that classifies them.
ConnErrors == {"network", "api key", "quota", "unauthorized"}

NextStop ==
  \/ UserStart
  \/ UserStop
  \/ OpenDashboard
  \/ CloseDashboard
  \/ MicOk
  \/ MicFail
  \/ ConnOk
  \/ \E t \in BagToSet(tasks) : \E err \in ConnErrors : ConnFailWith(t, err)
  \/ WaitElapse
  \/ OnError
  \/ OnClose
  \/ ReconnectTimer

SpecStop == Init /\ [][NextStop]_vars

\* A step in which stopSession is called: by the button, by the dashboard,
\* by onclose, by onerror at the cap, or by a reconnect timer.
StopIssued ==
  \/ StopCalled
  \/ OpenDashboard
  \/ ReconnectTimer
  \/ reconnectAttemptsRef >= maxReconnectAttempts /\ OnError

\* The connectSession invocations that are in a backoff of withRetry.
Waiting == {t \in BagToSet(tasks) : t.phase \in {"micWait", "connWait"}}

\* C22: a stop issued while a withRetry is in its backoff ends that withRetry
\* in the same step: no invocation that was waiting before the stop is still
\* waiting, or invoking its operation again, after it.
C22_StopCancelsWait ==
  [][StopIssued => \A t \in Waiting : ~BagIn(t, tasks')]_vars

\* C25: a connectSession invocation requests the microphone at most twice;
\* when its second request fails too, the invocation ends in that step with
\* the failure status shown, and it has opened no connection and asks for
\* none.
C25_MicRetriedOnce ==
  /\ [](\A t \in BagToSet(tasks) :
          t.phase \in {"mic", "micWait"} => t.attempt <= MicMaxAttempts)
  /\ [][\A t \in BagToSet(tasks) :
          (t.attempt >= MicMaxAttempts /\ MicFailOf(t)) =>
             /\ tasks' = Take(tasks, t)
             /\ statusMessage' = "failed"
             /\ conns' = conns
             /\ sessionRef' = sessionRef]_vars

\* Both microphone requests of a start failed: nothing is in flight, no
\* connection was made and the failure status is shown.
C25_Witness ==
  /\ statusMessage = "failed"
  /\ tasks = EmptyBag
  /\ conns = {}
  /\ sessionRef = 0
  /\ streamRef = 0
  /\ ~showDashboard

\* What stopSession does when it is called in the state s, statement by
\* statement in the order of the source (lines 1255-1326); a statement
\* guarded by a test is listed when the test passes.
stopSessionSteps(s) ==
  (IF s.abortControllerRef # NullCtl THEN << "abort" >> ELSE << >>)            \* 1257-1260
  \o (IF s.currentInputTranscription # << >> \/ s.currentOutputTranscription # << >>
      THEN << "saveInquiry session_end" >> ELSE << >>)                         \* 1263-1278
  \o << "resetSessionId" >>                                                    \* 1281
  \o (IF s.outputAudioContextRef # 0 THEN << "suspend output context" >> ELSE << >>)  \* 1283-1285
  \o << "stop and clear sources" >>                                            \* 1288-1295
  \o (IF s.outputAudioContextRef # 0 THEN << "close output context" >> ELSE << >>)    \* 1298-1301
  \o (IF s.audioContextRef # 0 THEN << "close input context" >> ELSE << >>)    \* 1304-1307
  \o (IF s.sessionRef # 0 THEN << "close connection" >> ELSE << >>)            \* 1310-1313
  \o (IF s.scriptProcessorRef # 0 THEN << "disconnect processor" >> ELSE << >>) \* 1316-1319
  \o (IF s.streamRef # 0 THEN << "stop microphone" >> ELSE << >>)              \* 1320-1323
  \o << "setIsRecording false", "setStatusMessage idle" >>                     \* 1324-1325

\* The group of the teardown order a statement of stopSession belongs to:
\* 1 cancel the retry wait, 2 flush the turn, 3 stop and clear the playback
\* scheduler, 4 close the connection, 5 disconnect and release the capture
\* pipeline (the input context with its processor node, and the
\* microphone), 6 reset the status; 0 for a statement of no group.
TeardownGroup(step) ==
  CASE step = "abort" -> 1
    [] step = "saveInquiry session_end" -> 2
    [] step \in {"suspend output context", "stop and clear sources",
                 "close output context"} -> 3
    [] step = "close connection" -> 4
    [] step \in {"close input context", "disconnect processor", "stop microphone"} -> 5
    [] step \in {"setIsRecording false", "setStatusMessage idle"} -> 6
    [] OTHER -> 0

\* No statement of a later group comes before one of an earlier group.
InTeardownOrder(steps) ==
  \A i, j \in DOMAIN steps :
    (i < j /\ TeardownGroup(steps[i]) # 0 /\ TeardownGroup(steps[j]) # 0)
      => TeardownGroup(steps[i]) <= TeardownGroup(steps[j])

\* C26: whenever stopSession is called, the statements it executes come in
\* the order cancel, flush, playback, connection, capture pipeline, status.
C26_TeardownOrder ==
  [][StopIssued => InTeardownOrder(stopSessionSteps(Cur))]_vars

\* C27: once the connections have been stopped (none is open), a message
\* handler of theirs that resumes from its audio decoding changes nothing
\* of the turn state, the log, the playback scheduler, the gallery and lead
\* form visibility, and dispatches no tool call.
C27_NoLateEffects ==
  [][(OpenConns = {} /\ DecodeSettle) =>
       /\ TurnUntouched
       /\ sourcesRef' = sourcesRef
       /\ nextStartTimeRef' = nextStartTimeRef
       /\ showGallery' = showGallery
       /\ showLeadForm' = showLeadForm
       /\ accepted' = accepted
       /\ sent' = sent]_vars

\* What stopSession leaves behind: no connection handle, no microphone
\* stream, no audio context, no active source, not recording, the idle
\* prompt.
Stopped(s) ==
  /\ s.sessionRef = 0 /\ s.sessionPromiseRef = 0
  /\ s.streamRef = 0 /\ s.scriptProcessorRef = 0
  /\ s.audioContextRef = 0 /\ s.outputAudioContextRef = 0
  /\ s.sourcesRef = {} /\ s.nextStartTimeRef = 0
  /\ s.abortControllerRef = NullCtl
  /\ ~s.isRecording
  /\ s.statusMessage = "idle"

\* C28: in every state the session can be in, stopSession runs to its end
\* and leaves no connection handle, stream, context or source, the recording
\* flag false and the idle status; and so does every step in which it is
\* called and nothing is started after it, with the catch blocks of the
\* waits it cancelled.
C28_StopFromAnyState ==
  /\ [](Stopped(stopSession(Cur, Snap(Cur))))
  /\ [][((StopCalled \/ OpenDashboard)
          \/ (reconnectAttemptsRef >= maxReconnectAttempts /\ OnError))
        => Stopped(Cur)']_vars

\* stopSession was called from the dashboard button in the middle of a
\* connect: a connectSession invocation is still awaiting its connection.
C28_Witness ==
  /\ showDashboard
  /\ Stopped(Cur)
  /\ \E t \in BagToSet(tasks) : t.phase = "conn"

\* The status getErrorMessage gives an authentication and a quota error.
AuthOrQuotaStatus(err) == IF err = "quota" THEN "quota" ELSE "auth"

C30_FailedStatusShown ==
  [][(reconnectAttemptsRef >= maxReconnectAttempts /\ OnError) =>
       /\ sessionRef' = 0
       /\ ~isRecording'
       /\ statusMessage' = "failed"]_vars

\* The session is active on a live connection: the recording flag is set and
\* the handle names a connection that is open.
ActiveOnLive ==
  /\ isRecording
  /\ sessionRef # 0
  /\ \E c \in conns : c.id = sessionRef /\ c.state = "open"

\* The session is stopped: flag false, handle cleared, microphone released.
\* statusMessage always holds one of the status texts.
StoppedWithStatus ==
  /\ ~isRecording
  /\ sessionRef = 0
  /\ streamRef = 0

\* Nothing of the session is pending: no connectSession is awaiting or
\* backing off, no reconnect timer is set, no connection is closing.
Settled ==
  /\ tasks = EmptyBag
  /\ reconnectTimers = << >>
  /\ \A c \in conns : c.state = "open"

\* C31: after a transport error, a close or a failed (re)connect attempt the
\* session ends up either active on a live connection or stopped with the
\* flag false, the handle cleared and the microphone released.  Read on the
\* states where nothing is pending any more: once an automatic reconnect has
\* run and every attempt, timer and close has finished, the session is in
\* one of the two states.
C31_FailureSettles ==
  (Settled /\ autoReconnects > 0) => (ActiveOnLive \/ StoppedWithStatus)

\* C32: stopSession called twice in a row leaves the state that one call
\* leaves, whichever render the second call comes from: the second call
\* writes no log record, closes no connection and releases nothing again.
C32_StopIdempotent ==
  LET once == stopSession(Cur, Snap(Cur))
  IN  /\ stopSession(once, Snap(once)) = once
      /\ stopSession(once, Snap(Cur)) = once

\* A stop has flushed an unfinished turn to the log and the connection is
\* gone: the state that a user stop followed by the close callback's stop,
\* or the close callback's stop alone, leaves.
C32_Witness ==
  /\ Stopped(Cur)
  /\ conns = {}
  /\ Len(inquiries) = 1
  /\ inquiries[1].status = "session_end"

NoDuplicates(history) ==
  \A j, k \in DOMAIN history : history[j] = history[k] => j = k

IsPrefix(old, new) ==
  Len(old) <= Len(new) /\ SubSeq(new, 1, Len(old)) = old

\* C33: the property history never lists a property twice; no step of the
\* tool dispatcher removes or reorders its entries; and a search whose first
\* result the history already lists leaves the history as it was.
C33_HistoryAppendOnly ==
  /\ [](NoDuplicates(propertyHistory))
  /\ [][IsPrefix(propertyHistory, propertyHistory')]_vars
  /\ [][\A p \in searches :
          (/\ SearchSettles(p)
           /\ Len(p.results) > 0
           /\ p.results[1] \in Range(propertyHistory))
          => propertyHistory' = propertyHistory]_vars

\* Two searches have been answered with the same property, and the history
\* lists it once.
C33_Witness ==
  /\ propertyHistory = << activeProperty >>
  /\ \E j, k \in DOMAIN sent :
       /\ j < k
       /\ sent[j].response.template = "found"
       /\ sent[k].response.template = "found"
       /\ sent[j].response.title = activeProperty
       /\ sent[k].response.title = activeProperty

----------------------------------------------------------------------------
(* The shown properties: tool calls fill the history while the session is  *)
(* stopped, reconnected and interrupted, the gallery and the lead form are *)
(* closed, and the dashboard is visited.                                   *)

\* A search_property call for villas in Riyadh arrives.
SearchCall ==
  \E c \in conns :
    ToolCallMessage(c, Call("search_property", TRUE, TRUE, {"villa", "riyadh"}, FALSE, 0))

\* The steps the history is to survive are taken once a property is listed:
\* one transport error per start, one turn completion, interruptions and
\* visits of the dashboard.
NextFrame ==
  \/ UserStart
  \/ UserStop
  \/ MicOk
  \/ ConnOk
  \/ OnClose
  \/ \E c \in conns :
       /\ propertyHistory # << >>
       /\ c.id = sessionRef /\ autoReconnects = 0 /\ reconnectTimers = << >>
       /\ OnErrorFrom(c)
  \/ ReconnectTimer
  \/ SearchCall
  \/ SearchSettle
  \/ GuardTimer
  \/ propertyHistory # << >> /\ transcript = << >> /\ TurnComplete
  \/ propertyHistory # << >> /\ Interrupted
  \/ CloseGallery
  \/ Interested
  \/ CloseLeadForm
  \/ propertyHistory # << >> /\ OpenDashboard
  \/ CloseDashboard

SpecFrame == Init /\ [][NextFrame]_vars

\* C34: a turn completion, an interruption, a stopSession, a reconnect and
\* the closing of the gallery or of the lead form leave the property history
\* and the active property as they were; a step that empties a non-empty
\* history is the step that leaves the dashboard.
C34_HistoryKept ==
  /\ [][(\/ TurnComplete \/ Interrupted
         \/ StopIssued \/ OnClose \/ OnError
         \/ CloseGallery \/ CloseLeadForm)
        => /\ propertyHistory' = propertyHistory
           /\ activeProperty' = activeProperty]_vars
  /\ [][(propertyHistory # << >> /\ propertyHistory' = << >>)
        => (showDashboard /\ ~showDashboard')]_vars

\* A property was shown, its gallery closed, and the session stopped by the
\* opening of the dashboard: the history and the active property are kept.
C34_Witness ==
  /\ showDashboard
  /\ Stopped(Cur)
  /\ ~showGallery
  /\ activeProperty # 0
  /\ propertyHistory = << activeProperty >>
  /\ autoReconnects > 0

----------------------------------------------------------------------------
(* Inbound order: messages that carry an audio chunk together with a       *)
(* fragment of the assistant's speech, among messages with text only.      *)

\* A message with an audio chunk and a fragment of the assistant's speech
\* arrives (serverContent with modelTurn and outputTranscription).
AudioWithOutput ==
  \E c \in conns : \E text \in Fragments \ {<< >>} :
    /\ chunkSeq < MaxChunks
    /\ Len(c.frags.output) < MaxFrags
    /\ Deliver(c, [NoMessage EXCEPT !.audio = 1, !.duration = 1,
                                    !.hasOutput = TRUE, !.outputText = text])

NextOrder ==
  \/ UserStart
  \/ UserStop
  \/ MicOk
  \/ ConnOk
  \/ OnClose
  \/ OutputTranscription
  \/ AudioWithOutput
  \/ TurnComplete
  \/ DecodeSettle

SpecOrder == Init /\ [][NextOrder]_vars

\* C35: the effects of the inbound messages take place in arrival order,
\* also when a message carries an audio chunk whose decoding is awaited:
\* the text accumulated for the assistant is at every moment a prefix of
\* the fragments the session's connection has sent in this turn, in the
\* order it sent them.
C35_ArrivalOrder ==
  \A c \in conns :
    (c.id = sessionRef /\ c.state = "open")
    => IsPrefix(currentOutputTranscription, Concat(c.frags.output))

\* C36: the number that an answered search_property reports is the position
\* (from 1) in the history of the property it shows, also when that property
\* was listed already.
C36_ReportedPosition ==
  [][\A p \in searches :
       (SearchSettles(p) /\ Len(p.results) > 0 /\ sessionPromiseRef # 0)
       => LET response == sent'[Len(sent')].response
          IN  /\ Len(sent') = Len(sent) + 1
              /\ response.template = "found"
              /\ response.index \in DOMAIN propertyHistory'
              /\ propertyHistory'[response.index] = activeProperty']_vars

\* What the firing of the oldest pending reconnect timer makes of s.
AfterReconnectTimer(s) ==
  Drain(reconnectTimer([s EXCEPT !.reconnectTimers = Tail(@)], Head(s.reconnectTimers)))

\* C37: after a stop by the user no automatic reconnect happens: a reconnect
\* timer that is still pending when the user has stopped the session starts
\* no connectSession, acquires no microphone and opens no connection when
\* it fires.
C37_NoReconnectAfterStop ==
  [][UserStop =>
       (reconnectTimers # << >> =>
          LET after == AfterReconnectTimer(Cur)
          IN  /\ after.tasks = tasks
              /\ after.conns = conns
              /\ after.liveStreams = liveStreams)']_vars

\* The one connectSession in flight is awaiting the microphone or the
\* backend, and a stopSession has run since it began: connectSession sets a
\* controller when it begins (line 1053) and only stopSession drops it.
StoppedInFlight(phase) ==
  /\ abortControllerRef = NullCtl
  /\ BagCardinality(tasks) = 1
  /\ \A t \in BagToSet(tasks) : t.phase = phase

\* C38: a stop issued while a start is awaiting the microphone or the
\* backend cancels that start: when the awaited operation settles the
\* session does not become active, no microphone stream and no connection
\* handle is retained, and no further attempt is made.
C38_StopCancelsStart ==
  /\ [][(StoppedInFlight("mic") /\ MicOk)
        => /\ tasks' = EmptyBag
           /\ streamRef' = 0
           /\ liveStreams' = liveStreams]_vars
  /\ [][(StoppedInFlight("conn") /\ ConnOk)
        => /\ tasks' = EmptyBag
           /\ sessionRef' = 0
           /\ ~isRecording'
           /\ \A c \in conns' \ conns : c.state = "closing"]_vars

\* C39: a search_property invocation that is still awaiting its search when
\* the session is stopped changes nothing of the shared view when the search
\* settles, and sends no response: the active property, the history and the
\* gallery flag stay as they were.
C39_LateSearchInert ==
  [][\A p \in searches :
       (sessionRef = 0 /\ SearchSettles(p))
       => /\ activeProperty' = activeProperty
          /\ propertyHistory' = propertyHistory
          /\ showGallery' = showGallery
          /\ sent' = sent]_vars

----------------------------------------------------------------------------
(* The gallery flag and its ref: tool calls, interruptions, and the user's *)
(* gallery actions.                                                        *)

\* The user presses the last-property button (line 1422): the state is set,
\* the ref is not.
LastProperty ==
  /\ ~showDashboard /\ activeProperty # 0
  /\ Commit([Cur EXCEPT !.showGallery = TRUE])

\* The error boundary around the gallery is reset (line 1435): the state is
\* set, the ref is not.
GalleryReset ==
  /\ ~showDashboard /\ showGallery /\ activeProperty # 0
  /\ Commit([Cur EXCEPT !.showGallery = FALSE])

NextGallery ==
  \/ UserStart
  \/ UserStop
  \/ MicOk
  \/ ConnOk
  \/ OnClose
  \/ ToolCall
  \/ SearchSettle
  \/ GuardTimer
  \/ Interrupted
  \/ CloseGallery
  \/ LastProperty
  \/ GalleryReset

SpecGallery == Init /\ [][NextGallery]_vars

\* C40: the ref that tracks the gallery for the interruption handler equals
\* the gallery flag that is rendered, in every state, so that an
\* interruption closes a gallery that is shown.
C40_GalleryRefInSync ==
  /\ [](showGalleryRef = showGallery)
  /\ [][(sessionRef # 0 /\ Interrupted) => ~showGallery']_vars

=============================================================================
